---- MODULE Spec2Model ----
(***************************************************************************)
(* spider (Arachnida/spider/src/main.rs): an image crawler.                *)
(*                                                                         *)
(* The program is sequential.  main either fetches one page (flat mode)    *)
(* or calls crawl_recursive, whose call stack is modelled by `stack`.      *)
(* The web is the environment: the answer of a server to the first fetch   *)
(* of a URL is chosen when the fetch happens and is recorded in `web`.     *)
(* Text (URLs, file names) is a sequence of one-character strings.         *)
(***************************************************************************)
EXTENDS Integers, Sequences, FiniteSets, TLC

VARIABLES
    recursive,   \* args.recursive
    seed,        \* args.url, parsed
    max_depth,   \* args.level
    web,         \* the pages served so far: URL -> page markup
    visited,     \* the HashSet of crawl_recursive (URL text)
    stack,       \* the active calls of crawl_recursive, innermost last
    ret,         \* the Result handed back by the call that just returned
    pc,          \* where main is
    flat,        \* main's locals in flat mode (valid_images and the loop position)
    status,      \* the Result of main: "running", "ok" or "err"
    files,       \* the save directory: file name -> the URL text whose bytes it holds
    trace,       \* every fetch_html and download_image call made, in order
    call         \* one function called by itself: its name, argument and result

vars == <<recursive, seed, max_depth, web, visited, stack, ret, pc, flat, status, files,
          trace, call>>

(***************************************************************************)
(* Bounds of the model.                                                    *)
(***************************************************************************)
\* the largest --level tried
MaxLevel == 2
\* the size of the whole site (see Size): its a and img elements
MaxContent == 4

\* default_value of --level, which clap leaves in place in flat mode
DefaultLevel == 5
\* MAX_LEN of download_image
MAX_LEN == 200

(***************************************************************************)
(* Text.  An Option is a sequence of no element (None) or one (Some).      *)
(***************************************************************************)
Some(x) == <<x>>

NoneOpt == <<>>

Prefix(s, n) == SubSeq(s, 1, n)

Suffix(s, n) == SubSeq(s, n, Len(s))

\* str::starts_with
starts_with(s, p) == Len(p) <= Len(s) /\ Prefix(s, Len(p)) = p

\* str::ends_with
ends_with(s, p) == Len(p) <= Len(s) /\ Suffix(s, Len(s) - Len(p) + 1) = p

\* str::contains
contains(s, p) == \E i \in 1..(Len(s) + 1) : starts_with(Suffix(s, i), p)

\* the positions of the character c in s
Positions(s, c) == {i \in DOMAIN s : s[i] = c}

\* str::find(char): the first position of c, 0 when there is none
find(s, c) ==
    LET at == Positions(s, c)
    IN  IF at = {} THEN 0 ELSE CHOOSE i \in at : \A j \in at : i <= j

\* str::rfind(char): the last position of c, 0 when there is none
rfind(s, c) ==
    LET at == Positions(s, c)
    IN  IF at = {} THEN 0 ELSE CHOOSE i \in at : \A j \in at : i >= j

\* s.split(c).next(): the text before the first c
split_first(s, c) == LET pos == find(s, c) IN IF pos = 0 THEN s ELSE Prefix(s, pos - 1)

\* s.split(c).last(): the text after the last c
split_last(s, c) == Suffix(s, rfind(s, c) + 1)

UpperCase == <<"A", "B", "C", "E", "F", "G", "I", "J", "M", "N", "P", "S", "V">>

LowerCase == <<"a", "b", "c", "e", "f", "g", "i", "j", "m", "n", "p", "s", "v">>

lower_char(c) ==
    IF \E k \in 1..Len(UpperCase) : UpperCase[k] = c
    THEN LowerCase[CHOOSE k \in 1..Len(UpperCase) : UpperCase[k] = c]
    ELSE c

\* str::to_lowercase
to_lowercase(s) == [i \in 1..Len(s) |-> lower_char(s[i])]

(***************************************************************************)
(* URLs (the url crate).  A parsed URL is a host and a path, the path      *)
(* with its query; its text is http://host/path.                           *)
(***************************************************************************)
Scheme == <<"h", "t", "t", "p", ":", "/", "/">>

DigitChars == {"0", "1", "2", "3", "4", "5", "6", "7", "8", "9"}

Ok(u) == [ok |-> TRUE, url |-> u]

Err == [ok |-> FALSE, url |-> [host |-> <<>>, path |-> <<>>]]

\* the text after the scheme: the host up to the first '/', then the path
ParseAuthority(rest) ==
    LET pos == find(rest, "/")
        host == IF pos = 0 THEN rest ELSE Prefix(rest, pos - 1)
        path == IF pos = 0 THEN <<"/">> ELSE Suffix(rest, pos)
    IN  IF host = <<>> THEN Err ELSE Ok([host |-> host, path |-> path])

\* Url::parse
UrlParse(s) ==
    IF starts_with(s, Scheme) THEN ParseAuthority(Suffix(s, Len(Scheme) + 1)) ELSE Err

\* Url::to_string
UrlStr(u) == Scheme \o u.host \o u.path

\* a host whose last label is a number is parsed as an IPv4 address
IsIpv4(host) ==
    LET last == split_last(host, ".")
    IN  last # <<>> /\ \A i \in 1..Len(last) : last[i] \in DigitChars

\* Url::domain: the host when it is a domain name, None when it is an IP address
domain(u) == IF IsIpv4(u.host) THEN NoneOpt ELSE Some(u.host)

\* Url::join, for the references of the pages below: an absolute reference
\* replaces the base, an empty one keeps it, a reference that starts with one
\* '/' replaces the path, any other one replaces the last segment of the path
join(base, ref) ==
    IF starts_with(ref, Scheme) THEN UrlParse(ref)
    ELSE IF ref = <<>> THEN Ok(base)
    ELSE IF ref[1] = "/" THEN Ok([host |-> base.host, path |-> ref])
    ELSE LET dir == split_first(base.path, "?")
         IN  Ok([host |-> base.host, path |-> Prefix(dir, rfind(dir, "/")) \o ref])

(***************************************************************************)
(* Markup.  A page is its a elements (their href) and its img elements     *)
(* (their src and data-src attributes, each an Option), in document order. *)
(***************************************************************************)
\* the two attributes read in the other order
DataSrcFirst(element) == IF element.data_src # NoneOpt THEN element.data_src ELSE element.src

\* element.value().attr("src").or_else(|| element.value().attr("data-src"))
SrcOf(element) == IF element.src # NoneOpt THEN element.src ELSE element.data_src

DataScheme == <<"d", "a", "t", "a", ":">>

\* one turn of the loop of find_images: the URLs pushed for one img element
ImageOf(element, base) ==
    LET src == SrcOf(element)
        absolute_url == join(base, src[1])
    IN  IF src = NoneOpt THEN <<>>
        ELSE IF starts_with(src[1], DataScheme) \/ src[1] = <<>> THEN <<>>
        ELSE IF absolute_url.ok THEN <<UrlStr(absolute_url.url)>>
        ELSE <<>>

RECURSIVE ImagesFrom(_, _)
ImagesFrom(elements, base) ==
    IF elements = <<>> THEN <<>>
    ELSE ImageOf(Head(elements), base) \o ImagesFrom(Tail(elements), base)

\* find_images(html, base_url), for a base_url that parses
find_images(html, base_url) == ImagesFrom(html.imgs, UrlParse(base_url).url)

valid_extensions ==
    << <<".", "j", "p", "g">>, <<".", "j", "p", "e", "g">>, <<".", "p", "n", "g">>,
       <<".", "g", "i", "f">>, <<".", "b", "m", "p">> >>

DotSvg == <<".", "s", "v", "g">>

\* is_valid_image(url)
is_valid_image(url) ==
    LET lower_url == to_lowercase(url)
        before_query == split_first(lower_url, "?")
        has_valid_ext ==
            \E k \in 1..Len(valid_extensions) : ends_with(before_query, valid_extensions[k])
    IN  IF contains(lower_url, DotSvg) THEN FALSE ELSE has_valid_ext

\* images.into_iter().filter(|u| is_valid_image(u)).collect()
KeepAll(images) == images

ValidImages(images) == SelectSeq(images, is_valid_image)

\* one turn of the loop of find_links: the URLs pushed for one a element
LinkOf(href, base) ==
    LET absolute_url == join(base, href)
    IN  IF absolute_url.ok /\ domain(absolute_url.url) = domain(base)
        THEN <<UrlStr(absolute_url.url)>>
        ELSE <<>>

RECURSIVE LinksFrom(_, _)
LinksFrom(hrefs, base) ==
    IF hrefs = <<>> THEN <<>>
    ELSE LinkOf(Head(hrefs), base) \o LinksFrom(Tail(hrefs), base)

\* the links of the page, the last one first
ReversedLinks(html, base_url) ==
    LET links == LinksFrom(html.anchors, UrlParse(base_url).url)
    IN  [k \in 1..Len(links) |-> links[Len(links) + 1 - k]]

\* find_links(html, base_url), for a base_url that parses
find_links(html, base_url) == LinksFrom(html.anchors, UrlParse(base_url).url)

(***************************************************************************)
(* The file name download_image derives from a URL.                        *)
(***************************************************************************)
HexChars == DigitChars \cup {"A", "B", "C", "D", "E", "F", "a", "b", "c", "d", "e", "f"}

\* the character of an escape %xy, for the escapes of printable ASCII used here
PercentChar(x, y) ==
    CASE <<x, y>> = <<"2", "0">> -> " "
      [] <<x, y>> \in {<<"2", "E">>, <<"2", "e">>} -> "."
      [] <<x, y>> \in {<<"2", "F">>, <<"2", "f">>} -> "/"
      [] <<x, y>> \in {<<"3", "F">>, <<"3", "f">>} -> "?"
      [] OTHER -> "~"

\* the positions at which an escape %xy starts
Escapes(s) ==
    {i \in 1..(Len(s) - 2) : s[i] = "%" /\ s[i + 1] \in HexChars /\ s[i + 2] \in HexChars}

\* urlencoding::decode: an escape becomes its character, any other text is kept
decode(s) ==
    LET starts == Escapes(s)
        Kept(i) == (i - 1) \notin starts /\ (i - 2) \notin starts
        kept == SelectSeq([i \in 1..Len(s) |-> i], Kept)
    IN  [k \in 1..Len(kept) |->
            IF kept[k] \in starts
            THEN PercentChar(s[kept[k] + 1], s[kept[k] + 2])
            ELSE s[kept[k]]]

\* filename.len() > MAX_LEN: keep the text from the last '.' on and cut the rest
Truncate(filename) ==
    IF Len(filename) > MAX_LEN
    THEN IF rfind(filename, ".") # 0
         THEN LET ext == Suffix(filename, rfind(filename, "."))
                  keep == IF MAX_LEN >= Len(ext) THEN MAX_LEN - Len(ext) ELSE 0
              IN  Prefix(filename, keep) \o ext
         ELSE Prefix(filename, MAX_LEN)
    ELSE filename

\* the file name of download_image(url, path)
FileName(url) == Truncate(decode(split_first(split_last(url, "/"), "?")))

(***************************************************************************)
(* The inputs: the command line and what the servers answer.               *)
(***************************************************************************)
\* the seed: a site named by a domain name, or by an IP address
Seeds ==
    { Scheme \o <<"x", "/", "0">>,
      Scheme \o <<"1", ".", "1", ".", "1", ".", "1", "/", "0">> }

\* the href attributes that stay on the site of the page: four of its pages
LocalHrefs == { <<"/", "0">>, <<"/", "1">>, <<"/", "2">>, <<"/", "3">> }

\* the href attributes that leave it, for a site named by a domain name and
\* for a site named by an IP address
ForeignHrefs ==
    { Scheme \o <<"y", "/", "0">>,
      Scheme \o <<"2", ".", "2", ".", "2", ".", "2", "/", "0">> }

Hrefs == LocalHrefs \cup ForeignHrefs

Img(src, data_src) == [src |-> src, data_src |-> data_src]

\* the img elements a page may carry
ImgElems ==
    { Img(Some(<<"/", "a", ".", "p", "n", "g">>), NoneOpt),
      Img(NoneOpt, Some(<<"b", ".", "J", "P", "G", "?", "v">>)),
      Img(Some(<<"/", "c", ".", "s", "v", "g">>), NoneOpt),
      Img(Some(DataScheme \o <<"x">>), Some(<<"/", "a", ".", "p", "n", "g">>)) }

NoPage == [anchors |-> <<>>, imgs |-> <<>>]

\* the size of markup: an a element that stays on the site counts one, an a
\* element that leaves it and an img element count two
AnchorsSize(anchors) ==
    Len(anchors) + Cardinality({k \in 1..Len(anchors) : anchors[k] \in ForeignHrefs})

Size(page) == AnchorsSize(page.anchors) + 2 * Len(page.imgs)

RECURSIVE Served(_)
\* the size of the pages served so far
Served(w) ==
    IF DOMAIN w = {} THEN 0
    ELSE LET u == CHOOSE v \in DOMAIN w : TRUE
         IN  Size(w[u]) + Served([v \in DOMAIN w \ {u} |-> w[v]])

\* the sequences over S of length at most n
UpTo(S, n) == UNION {[1..k -> S] : k \in 0..n}

\* the pages of a site other than /0, in the order their names are used
PageNames == << <<"/", "1">>, <<"/", "2">>, <<"/", "3">> >>

\* the href attributes of the pages served so far
Mentioned(w) == UNION {{w[u].anchors[k] : k \in DOMAIN w[u].anchors} : u \in DOMAIN w}

\* a page names no page before the pages named before it: sites that differ
\* only by the names of their pages are crawled alike, and one of them is kept
InOrder(anchors, known) ==
    \A k \in DOMAIN anchors : \A r \in 2..Len(PageNames) :
        anchors[k] = PageNames[r] =>
            PageNames[r - 1] \in known \cup {anchors[n] : n \in 1..(k - 1)}

\* the markup a server may answer with, on a site of size at most limit: what
\* it answered before, or, for a URL not fetched yet, any page that fits
Pages(w, url, limit) ==
    IF url \in DOMAIN w THEN {w[url]}
    ELSE LET room == limit - Served(w)
         IN  UNION { { [anchors |-> a, imgs |-> i] :
                         i \in UpTo(ImgElems, (room - AnchorsSize(a)) \div 2) } :
                     a \in {x \in UpTo(Hrefs, room) :
                              AnchorsSize(x) <= room /\ InOrder(x, Mentioned(w))} }

\* what download_image may end with: the file written ("ok"), an error before
\* the file is opened, of the request, of the name or of File::create
\* ("fetch_err"), or the error of write_all on the opened file ("io_err")
Outcomes == {"ok", "fetch_err", "io_err"}

(***************************************************************************)
(* The state after Args::parse().                                          *)
(***************************************************************************)
NoLocals == [valid_images |-> <<>>, i |-> 1]

\* no function is called by itself in a run of main
NoCall == [fn |-> "none", arg |-> <<>>, result |-> <<>>]

Init ==
    /\ recursive \in BOOLEAN
    /\ seed \in Seeds
    /\ max_depth \in (IF recursive THEN 0..MaxLevel ELSE {DefaultLevel})
    /\ web = <<>>
    /\ visited = {}
    /\ stack = <<>>
    /\ ret = "none"
    /\ pc = "start"
    /\ flat = NoLocals
    /\ status = "running"
    /\ files = <<>>
    /\ trace = <<>>
    /\ call = NoCall

(***************************************************************************)
(* The calls recorded in trace.                                            *)
(***************************************************************************)
FetchEvent(url, depth, ok) ==
    [op |-> "fetch", url |-> url, page |-> url, depth |-> depth, ok |-> ok]

DownloadEvent(url, page, depth, ok) ==
    [op |-> "download", url |-> url, page |-> page, depth |-> depth, ok |-> ok]

\* a file that is there is left as it is
StoreIfAbsent(dir, url) ==
    [n \in DOMAIN dir \cup {FileName(url)} |-> IF n \in DOMAIN dir THEN dir[n] ELSE url]

\* file.write_all(&bytes) on File::create(path.join(filename))
Store(dir, url) == [n \in DOMAIN dir \cup {FileName(url)} |->
                      IF n = FileName(url) THEN url ELSE dir[n]]

\* the bytes of no URL: what File::create leaves of a file when write_all fails
NoBytes == <<>>

\* the save directory after download_image(url, path) has ended with outcome
Written(dir, url, outcome) ==
    CASE outcome = "ok" -> Store(dir, url)
      [] outcome = "io_err" ->
            [n \in DOMAIN dir \cup {FileName(url)} |->
                IF n = FileName(url) THEN NoBytes ELSE dir[n]]
      [] OTHER -> dir

\* the pages served, after url has been answered with page
Serve(w, url, page) == [u \in DOMAIN w \cup {url} |-> IF u = url THEN page ELSE w[u]]

(***************************************************************************)
(* crawl_recursive.                                                        *)
(***************************************************************************)
Frame(url, depth) ==
    [url |-> url, depth |-> depth, at |-> "entry", html |-> NoPage,
     valid_images |-> <<>>, i |-> 1, links |-> <<>>, j |-> 1]

Top == stack[Len(stack)]

Callers == SubSeq(stack, 1, Len(stack) - 1)

\* the innermost call goes on as frame f
Continue(f) == stack' = Callers \o <<f>>

\* the innermost call returns r to its caller
Return(r) == stack' = Callers /\ ret' = r

\* line 142: depth > max_depth || visited.contains(url)
SkipDepthOnly(url, depth, max, seen) == depth > max

\* the test of the depth, off by one
SkipAtLimit(url, depth, max, seen) == depth >= max \/ url \in seen

SkipCall(url, depth, max, seen) == depth > max \/ url \in seen

\* line 146: visited.insert(url.to_string())
InsertNothing(seen, url) == seen

VisitedInsert(seen, url) == seen \cup {url}

\* line 162: depth < max_depth
Descends(depth, max) == depth < max

\* line 165: the depth of the call made for a link
SameDepth(depth) == depth

ChildDepth(depth) == depth + 1

\* line 165: the ? on the result of the call made for a link
NeverFails(r) == FALSE

RecurseFails(r) == r = "err"

\* line 164: the for loop goes to the next link
SameLink(j) == j

NextLink(j) == j + 1

\* lines 142-147: the guard, and the insertion into visited
CrawlEntry ==
    /\ stack # <<>> /\ Top.at = "entry"
    /\ IF SkipCall(Top.url, Top.depth, max_depth, visited)
       THEN Return("ok") /\ UNCHANGED visited
       ELSE /\ visited' = VisitedInsert(visited, Top.url)
            /\ Continue([Top EXCEPT !.at = "fetch"])
            /\ UNCHANGED ret
    /\ UNCHANGED <<call, recursive, seed, max_depth, web, pc, flat, status, files, trace>>

\* lines 149-155: fetch_html(url)?, find_images and the filter
CrawlFetchFrom(pages) ==
    /\ stack # <<>> /\ Top.at = "fetch"
    /\ \/ /\ trace' = Append(trace, FetchEvent(Top.url, Top.depth, FALSE))
          /\ Return("err")
          /\ UNCHANGED web
       \/ \E html \in pages :
            /\ trace' = Append(trace, FetchEvent(Top.url, Top.depth, TRUE))
            /\ web' = Serve(web, Top.url, html)
            /\ Continue([Top EXCEPT !.at = "images", !.html = html,
                           !.valid_images = ValidImages(find_images(html, Top.url))])
            /\ UNCHANGED ret
    /\ UNCHANGED <<call, recursive, seed, max_depth, visited, pc, flat, status, files>>

\* on a site of size at most limit
CrawlFetchOn(limit) == CrawlFetchFrom(Pages(web, Top.url, limit))

CrawlFetch == CrawlFetchOn(MaxContent)

\* lines 156-160: one turn of the loop over valid_images
CrawlDownload ==
    /\ stack # <<>> /\ Top.at = "images" /\ Top.i <= Len(Top.valid_images)
    /\ \E outcome \in Outcomes :
         LET img_url == Top.valid_images[Top.i]
         IN  /\ trace' = Append(trace,
                    DownloadEvent(img_url, Top.url, Top.depth, outcome = "ok"))
             /\ files' = Written(files, img_url, outcome)
    /\ Continue([Top EXCEPT !.i = @ + 1])
    /\ UNCHANGED <<call, recursive, seed, max_depth, web, visited, ret, pc, flat, status>>

\* lines 162-163 and 169: after the images, find_links or the return
CrawlLinks ==
    /\ stack # <<>> /\ Top.at = "images" /\ Top.i > Len(Top.valid_images)
    /\ IF Descends(Top.depth, max_depth)
       THEN /\ Continue([Top EXCEPT !.at = "links",
                           !.links = find_links(Top.html, Top.url)])
            /\ UNCHANGED ret
       ELSE Return("ok")
    /\ UNCHANGED <<call, recursive, seed, max_depth, web, visited, pc, flat, status, files, trace>>

\* line 165: the call made for the next link
CrawlCall ==
    /\ stack # <<>> /\ Top.at = "links" /\ Top.j <= Len(Top.links)
    /\ stack' = Callers \o <<[Top EXCEPT !.at = "call"],
                             Frame(Top.links[Top.j], ChildDepth(Top.depth))>>
    /\ UNCHANGED <<call, recursive, seed, max_depth, web, visited, ret, pc, flat, status, files, trace>>

\* line 165: the call has returned; its error is returned, or the loop goes on
CrawlResume ==
    /\ stack # <<>> /\ Top.at = "call" /\ ret # "none"
    /\ IF RecurseFails(ret)
       THEN Return("err")
       ELSE Continue([Top EXCEPT !.at = "links", !.j = NextLink(@)]) /\ ret' = "none"
    /\ UNCHANGED <<call, recursive, seed, max_depth, web, visited, pc, flat, status, files, trace>>

\* line 169: no link is left
CrawlReturn ==
    /\ stack # <<>> /\ Top.at = "links" /\ Top.j > Len(Top.links)
    /\ Return("ok")
    /\ UNCHANGED <<call, recursive, seed, max_depth, web, visited, pc, flat, status, files, trace>>

(***************************************************************************)
(* main.                                                                   *)
(***************************************************************************)
\* the Result main returns for the Result r of a call followed by ?
AlwaysOk(r) == "ok"

MainResult(r) == r

\* line 177 without its test of args.recursive
MainCrawlAlways ==
    /\ pc = "start"
    /\ stack' = <<Frame(seed, 0)>>
    /\ pc' = "crawl"
    /\ UNCHANGED <<call, recursive, seed, max_depth, web, visited, ret, flat, status, files, trace>>

\* lines 177-180: recursive mode calls crawl_recursive(&args.url, 0, args.level, ..)
MainCrawl ==
    /\ pc = "start" /\ recursive
    /\ stack' = <<Frame(seed, 0)>>
    /\ pc' = "crawl"
    /\ UNCHANGED <<call, recursive, seed, max_depth, web, visited, ret, flat, status, files, trace>>

\* lines 180-181 and 199: crawl_recursive has returned to main
MainCrawled ==
    /\ pc = "crawl" /\ stack = <<>> /\ ret # "none"
    /\ status' = MainResult(ret)
    /\ pc' = "done"
    /\ ret' = "none"
    /\ UNCHANGED <<call, recursive, seed, max_depth, web, visited, stack, flat, files, trace>>

\* lines 183-192: flat mode fetches the seed, finds and filters its images
MainFetchFrom(pages) ==
    /\ pc = "start" /\ ~recursive
    /\ \/ /\ trace' = Append(trace, FetchEvent(seed, 0, FALSE))
          /\ status' = MainResult("err")
          /\ pc' = "done"
          /\ UNCHANGED <<web, flat>>
       \/ \E html \in pages :
            /\ trace' = Append(trace, FetchEvent(seed, 0, TRUE))
            /\ web' = Serve(web, seed, html)
            /\ flat' = [valid_images |-> ValidImages(find_images(html, seed)), i |-> 1]
            /\ pc' = "download"
            /\ UNCHANGED status
    /\ UNCHANGED <<call, recursive, seed, max_depth, visited, stack, ret, files>>

\* on a site of size at most limit
MainFetchOn(limit) == MainFetchFrom(Pages(web, seed, limit))

MainFetch == MainFetchOn(MaxContent)

\* lines 193-196: one turn of the loop of flat mode, download_image(..)?
MainDownload ==
    /\ pc = "download" /\ flat.i <= Len(flat.valid_images)
    /\ \E outcome \in Outcomes :
         LET img_url == flat.valid_images[flat.i]
         IN  /\ trace' = Append(trace, DownloadEvent(img_url, seed, 0, outcome = "ok"))
             /\ files' = Written(files, img_url, outcome)
             /\ IF outcome = "ok"
                THEN flat' = [flat EXCEPT !.i = @ + 1] /\ UNCHANGED <<pc, status>>
                ELSE status' = MainResult("err") /\ pc' = "done" /\ UNCHANGED flat
    /\ UNCHANGED <<call, recursive, seed, max_depth, web, visited, stack, ret>>

\* line 199: flat mode has no image left
MainDone ==
    /\ pc = "download" /\ flat.i > Len(flat.valid_images)
    /\ status' = MainResult("ok")
    /\ pc' = "done"
    /\ UNCHANGED <<call, recursive, seed, max_depth, web, visited, stack, ret, flat, files, trace>>

Next ==
    \/ MainCrawl
    \/ CrawlEntry
    \/ CrawlFetch
    \/ CrawlDownload
    \/ CrawlLinks
    \/ CrawlCall
    \/ CrawlResume
    \/ CrawlReturn
    \/ MainCrawled
    \/ MainFetch
    \/ MainDownload
    \/ MainDone

Spec == Init /\ [][Next]_vars

\* the size of the sites on which the end of the run is checked
SmallSite == MaxContent - 2

\* the steps of a run on a site of size at most SmallSite
SmallNext ==
    \/ MainCrawl
    \/ CrawlEntry
    \/ CrawlFetchOn(SmallSite)
    \/ CrawlDownload
    \/ CrawlLinks
    \/ CrawlCall
    \/ CrawlResume
    \/ CrawlReturn
    \/ MainCrawled
    \/ MainFetchOn(SmallSite)
    \/ MainDownload
    \/ MainDone

\* the program is sequential and every call it makes returns: the step it is
\* at is taken
FairSpec == Init /\ [][SmallNext]_vars /\ WF_vars(SmallNext)

(***************************************************************************)
(* The runs that fetch the seed page alone, flat mode and recursive mode    *)
(* with --level 0, on a page with more img elements, of more kinds.        *)
(***************************************************************************)
\* the most img elements of the page
MaxImgs == 3

\* img elements whose URLs have the file name of /a.png, one whose src does
\* not resolve (a URL without a host), and one whose src is empty
MoreImgElems ==
    ImgElems \cup
    { Img(Some(<<"/", "d", "/", "a", ".", "p", "n", "g">>), NoneOpt),
      Img(Some(Scheme), NoneOpt),
      Img(Some(<<>>), Some(<<"/", "a", ".", "p", "n", "g">>)) }

\* what the server of the seed may answer with
SeedPages ==
    {[anchors |-> a, imgs |-> i] : a \in {<<>>, << <<"/", "1">> >>}, i \in UpTo(MoreImgElems, MaxImgs)}

PageInit ==
    /\ recursive \in BOOLEAN
    /\ seed = Scheme \o <<"x", "/", "0">>
    /\ max_depth = (IF recursive THEN 0 ELSE DefaultLevel)
    /\ web = <<>>
    /\ visited = {}
    /\ stack = <<>>
    /\ ret = "none"
    /\ pc = "start"
    /\ flat = NoLocals
    /\ status = "running"
    /\ files = <<>>
    /\ trace = <<>>
    /\ call = NoCall

\* the steps of these runs: with --level 0 the test at line 162 is false, and
\* no call is made for a link
PageNext ==
    \/ MainCrawl
    \/ CrawlEntry
    \/ CrawlFetchFrom(SeedPages)
    \/ CrawlDownload
    \/ CrawlLinks
    \/ MainCrawled
    \/ MainFetchFrom(SeedPages)
    \/ MainDownload
    \/ MainDone

PageSpec == PageInit /\ [][PageNext]_vars

(***************************************************************************)
(* is_valid_image and the file name of download_image, called by           *)
(* themselves on a URL.                                                    *)
(***************************************************************************)
\* how much longer than MAX_LEN the longest name tried is
MaxOver == 3

\* n times the character c
Rep(c, n) == [i \in 1..n |-> c]

Site == Scheme \o <<"x", "/">>

Stems ==
    { <<>>, <<"a">>, <<"A">>, <<"n", "o", "e", "x", "t">>,
      <<"i", "c", "o", "n", ".", "s", "v", "g">>,
      <<"i", "c", "o", "n", ".", "S", "V", "G">> }

Extensions ==
    { <<>>, <<".", "j", "p", "g">>, <<".", "J", "P", "G">>, <<".", "j", "p", "e", "g">>,
      <<".", "p", "n", "g">>, <<".", "g", "i", "f">>, <<".", "b", "m", "p">>,
      <<".", "B", "m", "P">>, <<".", "s", "v", "g">>, <<".", "p", "n">>,
      <<".", "p", "n", "g", "x">>, <<"p", "n", "g">> }

Queries ==
    { <<>>, <<"?">>, <<"?", "s", "i", "z", "e", "=", "b", "i", "g">>,
      <<"?", "x", ".", "p", "n", "g">>, <<"?", "x", ".", "s", "v", "g">>,
      <<"?", "a", "?", "b", ".", "g", "i", "f">> }

\* URLs with a short name, an extension and a query
ShortUrls == {Site \o stem \o ext \o query : stem \in Stems, ext \in Extensions, query \in Queries}

\* the name of length len whose last '.' is at dot (no '.' when dot = 0), with
\* a '.' before it when first
LongName(len, dot, first) ==
    [i \in 1..len |->
        IF i = dot THEN "." ELSE IF i = 1 /\ first /\ dot > 1 THEN "." ELSE IF i < dot THEN "a" ELSE "b"]

\* URLs with a name about MAX_LEN long
LongUrls ==
    UNION { {Site \o LongName(len, dot, first) : dot \in 0..len, first \in BOOLEAN} :
              len \in (MAX_LEN - 1)..(MAX_LEN + MaxOver) }

UnitInit ==
    /\ call \in {[fn |-> "none", arg |-> url, result |-> <<>>] : url \in ShortUrls \cup LongUrls}
    /\ recursive = FALSE
    /\ seed = Site
    /\ max_depth = DefaultLevel
    /\ web = <<>>
    /\ visited = {}
    /\ stack = <<>>
    /\ ret = "none"
    /\ pc = "start"
    /\ flat = NoLocals
    /\ status = "running"
    /\ files = <<>>
    /\ trace = <<>>

\* is_valid_image(url)
IsValidImageCall ==
    /\ call.fn = "none"
    /\ call' = [call EXCEPT !.fn = "is_valid_image", !.result = is_valid_image(call.arg)]
    /\ UNCHANGED <<recursive, seed, max_depth, web, visited, stack, ret, pc, flat, status,
                   files, trace>>

\* lines 87-106 of download_image(url, path): the file name
FileNameCall ==
    /\ call.fn = "none"
    /\ call' = [call EXCEPT !.fn = "download_image", !.result = FileName(call.arg)]
    /\ UNCHANGED <<recursive, seed, max_depth, web, visited, stack, ret, pc, flat, status,
                   files, trace>>

UnitNext == IsValidImageCall \/ FileNameCall

UnitSpec == UnitInit /\ [][UnitNext]_vars

(***************************************************************************)
(* Observations of a run.                                                  *)
(***************************************************************************)
Fetches == {n \in DOMAIN trace : trace[n].op = "fetch"}

Downloads == {n \in DOMAIN trace : trace[n].op = "download"}

FailedFetches == {n \in Fetches : ~trace[n].ok}

HostOf(url) == UrlParse(url).url.host

\* the URLs the a elements of a served page resolve to, on any site
AllLinks(u) ==
    IF u \in DOMAIN web
    THEN LET base == UrlParse(u).url
         IN  {UrlStr(join(base, web[u].anchors[k]).url) :
                k \in {n \in DOMAIN web[u].anchors : join(base, web[u].anchors[n]).ok}}
    ELSE {}

\* a served page u has an a element that resolves to v
LinksTo(u, v) ==
    /\ u \in DOMAIN web
    /\ LET base == UrlParse(u).url
       IN  \E k \in DOMAIN web[u].anchors :
             LET absolute_url == join(base, web[u].anchors[k])
             IN  absolute_url.ok /\ UrlStr(absolute_url.url) = v

\* those of them that are on the site of the page
SiteLinks(u) == {v \in AllLinks(u) : HostOf(v) = HostOf(u)}

RECURSIVE SiteWithin(_, _)
\* the URLs at most k links away from the URLs of S, through links that stay on the site
SiteWithin(S, k) ==
    IF k = 0 THEN S ELSE SiteWithin(S \cup UNION {SiteLinks(u) : u \in S}, k - 1)

\* the links crawl_recursive follows from a served page
Followed(u) ==
    IF u \in DOMAIN web
    THEN {find_links(web[u], u)[k] : k \in DOMAIN find_links(web[u], u)}
    ELSE {}

\* the validated images of a served page
ValidOn(u) == ValidImages(find_images(web[u], u))

\* the URLs download_image was called with for the images of page u, in order
DownloadedFor(u) ==
    LET OfPage(e) == e.op = "download" /\ e.page = u
        calls == SelectSeq(trace, OfPage)
    IN  [k \in DOMAIN calls |-> calls[k].url]

\* the number of page fetches of u
TimesFetched(u) == Cardinality({n \in Fetches : trace[n].url = u})

(***************************************************************************)
(* C1.  In recursive mode no URL is fetched as a page more than once,      *)
(* whatever the links between the pages (cycles and links back to the      *)
(* seed included) and whatever the depth limit.                            *)
(***************************************************************************)
C1_FetchedAtMostOnce ==
    recursive =>
        \A m, n \in Fetches : trace[m].url = trace[n].url => m = n

\* a finished crawl in which a page below the seed, followed to its links,
\* links back to the seed
C1_Witness ==
    /\ recursive /\ status = "ok"
    /\ \E n \in Fetches :
         /\ trace[n].url # seed
         /\ trace[n].depth < max_depth
         /\ seed \in Followed(trace[n].url)

(***************************************************************************)
(* C2.  In recursive mode every page fetch is made at a depth of at most   *)
(* max_depth, and the page fetched is at most that many links away from    *)
(* the seed: at depth 0 it is the seed, and at a depth d > 0 it is linked  *)
(* from a page fetched at depth d - 1.  So a page that no path of at most  *)
(* max_depth links reaches is never fetched, for max_depth = 0 too.        *)
(***************************************************************************)
C2_DepthBound ==
    recursive =>
        \A n \in Fetches :
            /\ trace[n].depth <= max_depth
            /\ trace[n].depth = 0 => trace[n].url = seed
            /\ trace[n].depth > 0 =>
                 \E m \in 1..(n - 1) :
                     /\ trace[m].op = "fetch" /\ trace[m].ok
                     /\ trace[m].depth = trace[n].depth - 1
                     /\ LinksTo(trace[m].url, trace[n].url)

\* a finished crawl that left out a page linked from a page at the depth limit
C2_Witness ==
    /\ recursive /\ status = "ok"
    /\ \E n \in Fetches :
         /\ trace[n].depth = max_depth
         /\ \E v \in Followed(trace[n].url) : v \notin visited

(***************************************************************************)
(* C3.  In recursive mode, when no page fetch has failed and the crawl has *)
(* returned, every URL of the site that is at most max_depth links away    *)
(* from the seed has been fetched exactly once.                            *)
(***************************************************************************)
C3_AllWithinDepthVisited ==
    (recursive /\ pc = "done" /\ FailedFetches = {}) =>
        \A u \in SiteWithin({seed}, max_depth) : u \in visited /\ TimesFetched(u) = 1

(***************************************************************************)
(* C4.  In recursive mode, every fetch and download returning, the crawl   *)
(* ends, whatever the links between the pages (cycles and links of a page  *)
(* to itself included) and whatever the depth limit.                       *)
(***************************************************************************)
C4_Terminates == recursive ~> (pc = "done" /\ stack = <<>>)

\* a crawl that has ended after it followed the links of a page that links to itself
C4_Witness ==
    /\ recursive /\ pc = "done"
    /\ \E n \in Fetches :
         /\ trace[n].depth < max_depth
         /\ trace[n].url \in Followed(trace[n].url)

(***************************************************************************)
(* C5.  In recursive mode every URL fetched as a page has the host of the  *)
(* seed, for a seed named by a domain name and for a seed named by an IP   *)
(* address.                                                                *)
(***************************************************************************)
C5_SameHostAsSeed ==
    recursive => \A n \in Fetches : HostOf(trace[n].url) = HostOf(seed)

(***************************************************************************)
(* C6.  In both modes a failed download of an image stops nothing: when    *)
(* the run has ended and no page fetch has failed, the run reports success *)
(* and download_image has been called for every validated image of every   *)
(* page fetched, in the order of the page.                                 *)
(***************************************************************************)
C6_DownloadFailureIsNotFatal ==
    (pc = "done" /\ FailedFetches = {}) =>
        /\ status = "ok"
        /\ \A u \in DOMAIN web : DownloadedFor(u) = ValidOn(u)

(***************************************************************************)
(* C7.  In recursive mode a failed page fetch, at any depth, is the last   *)
(* call the run makes: no page is fetched and no image is downloaded after *)
(* it, and the run ends reporting failure.                                 *)
(***************************************************************************)
C7_PageFailureAbortsRun ==
    recursive =>
        /\ \A n \in FailedFetches : n = Len(trace)
        /\ (pc = "done" /\ FailedFetches # {}) => status = "err"

\* a run ended by the failed fetch of a page two links below the seed, while
\* a link of the seed page was still to be followed
C7_Witness ==
    /\ recursive /\ pc = "done" /\ status = "err"
    /\ \E n \in FailedFetches : trace[n].depth >= 2
    /\ \E v \in Followed(seed) : v \notin visited

(***************************************************************************)
(* C8.  In both modes, when the fetch of the seed page fails, no download  *)
(* is attempted, no file is written, and the run never reports success: it *)
(* ends reporting failure.                                                 *)
(***************************************************************************)
C8_SeedFailure ==
    trace # <<>> =>
        /\ trace[1].op = "fetch" /\ trace[1].url = seed
        /\ ~trace[1].ok =>
             /\ Len(trace) = 1
             /\ DOMAIN files = {}
             /\ status # "ok"
             /\ pc = "done" => status = "err"

\* a run of flat mode ended by the failed fetch of the seed
C8_Witness ==
    /\ pc = "done" /\ status = "err"
    /\ trace # <<>> /\ ~trace[1].ok
    /\ ~recursive

(***************************************************************************)
(* C9.  In any run no image URL is downloaded more than once.              *)
(***************************************************************************)
C9_NoDuplicateDownload ==
    \A m, n \in Downloads : trace[m].url = trace[n].url => m = n

(***************************************************************************)
(* C9, amended.  In any run the downloads made for a page are, in order,   *)
(* the validated img references of that page, each at most once: an image  *)
(* URL is downloaded at most once for each validated reference to it on a  *)
(* fetched page, and so more than once when it is referenced more than     *)
(* once.                                                                   *)
(***************************************************************************)
C9_OncePerReference ==
    \A u \in {trace[n].page : n \in Downloads} :
        /\ u \in DOMAIN web
        /\ LET calls == DownloadedFor(u)
               references == ValidOn(u)
           IN  Len(calls) <= Len(references) /\ calls = Prefix(references, Len(calls))

\* a run that has ended after it downloaded one image URL twice
C9_Witness ==
    /\ pc = "done"
    /\ \E m, n \in Downloads : m < n /\ trace[m].url = trace[n].url

(***************************************************************************)
(* C10.  In both modes every URL download_image is called with is one for  *)
(* which is_valid_image is true.                                           *)
(***************************************************************************)
C10_OnlyValidDownloaded ==
    \A n \in Downloads : is_valid_image(trace[n].url)

\* a run that has ended after a download for a page that also holds an img
\* element the validator refuses
C10_Witness ==
    /\ pc = "done"
    /\ \E n \in Downloads :
         \E k \in DOMAIN find_images(web[trace[n].page], trace[n].page) :
             ~is_valid_image(find_images(web[trace[n].page], trace[n].page)[k])

(***************************************************************************)
(* C11.  is_valid_image(url) is true exactly when the lower-cased text of  *)
(* url before the first '?' ends with .jpg, .jpeg, .png, .gif or .bmp: so  *)
(* it is true of http://x/icon.svg.png, whose name holds '.svg' before the *)
(* extension, and of http://x/a.JPG?size=big.                              *)
(***************************************************************************)
C11_ValidIffExtension ==
    call.fn = "is_valid_image" =>
        LET before_query == split_first(to_lowercase(call.arg), "?")
        IN  call.result <=>
              \E ext \in { <<".", "j", "p", "g">>, <<".", "j", "p", "e", "g">>,
                           <<".", "p", "n", "g">>, <<".", "g", "i", "f">>,
                           <<".", "b", "m", "p">> } :
                  ends_with(before_query, ext)

(***************************************************************************)
(* C12.  For every decoded final segment of a URL that is longer than 200, *)
(* the file name download_image produces is at most 200 long and, when the *)
(* segment holds a '.', ends with the text of the segment from its last    *)
(* '.' on, wherever that '.' is: also when that text is itself longer than *)
(* 200.                                                                    *)
(***************************************************************************)
C12_TruncatedKeepsExtension ==
    call.fn = "download_image" =>
        LET name == decode(split_first(split_last(call.arg, "/"), "?"))
            dot == rfind(name, ".")
        IN  Len(name) > 200 =>
              /\ Len(call.result) <= 200
              /\ dot # 0 => ends_with(call.result, Suffix(name, dot))

(***************************************************************************)
(* C13.  In recursive mode the crawl is depth first, in document order.    *)
(* The downloads of the images of a page follow its fetch with no page     *)
(* fetched in between, so they come before the fetch of any child.  A page *)
(* fetched at a depth d > 0 is a same-domain link of the last page fetched *)
(* before it at depth d - 1, and the pages fetched between the two are the *)
(* links that come before it on that page, and the pages below them: every *)
(* page fetched during the crawl of a link Li is fetched before the crawl  *)
(* of a later link Lj starts.                                              *)
(***************************************************************************)
C13_DepthFirstOrder ==
    recursive =>
        /\ \A m \in Downloads :
             \E f \in Fetches :
                 /\ f < m /\ trace[f].url = trace[m].page
                 /\ \A k \in (f + 1)..(m - 1) :
                        trace[k].op = "download" /\ trace[k].page = trace[m].page
        /\ \A n \in Fetches :
             trace[n].depth > 0 =>
                 LET above == {m \in Fetches : m < n /\ trace[m].depth = trace[n].depth - 1}
                     p == CHOOSE m \in above : \A k \in above : k <= m
                     links == LinksFrom(web[trace[p].url].anchors, UrlParse(trace[p].url).url)
                     First(u) == find(links, u)
                 IN  /\ above # {}
                     /\ trace[p].ok
                     /\ First(trace[n].url) # 0
                     /\ \A k \in Fetches :
                            (p < k /\ k < n) =>
                                /\ trace[k].depth >= trace[n].depth
                                /\ trace[k].depth = trace[n].depth =>
                                       First(trace[k].url) < First(trace[n].url)

\* a finished crawl in which a page two links below the seed was fetched
\* between two pages the seed links to
C13_Witness ==
    /\ recursive /\ status = "ok"
    /\ \E a, b, c \in Fetches :
         /\ a < b /\ b < c
         /\ trace[a].depth = 1 /\ trace[b].depth = 2 /\ trace[c].depth = 1

(***************************************************************************)
(* C14.  In flat mode one page is fetched, the seed, and no other: no link *)
(* of the seed page is followed, whatever links it holds, no call of       *)
(* crawl_recursive is made and no visited set is filled.                   *)
(***************************************************************************)
C14_FlatFetchesSeedOnly ==
    ~recursive =>
        /\ visited = {}
        /\ stack = <<>>
        /\ \A n \in Fetches : n = 1 /\ trace[n].url = seed
        /\ pc # "start" => Fetches = {1}

\* a finished run of flat mode on a seed page that links to a page of its site
\* and holds an image, which was downloaded
C14_Witness ==
    /\ ~recursive /\ pc = "done" /\ status = "ok"
    /\ \E v \in Followed(seed) : v # seed
    /\ Downloads # {}

(***************************************************************************)
(* C15.  After any downloads into the save directory, no file name is made *)
(* up to avoid a file that is there: the file of a name holds the bytes of *)
(* the last successful download of that name, the bytes of the earlier     *)
(* ones are lost, and there are no more files than distinct derived file   *)
(* names.                                                                  *)
(***************************************************************************)
C15_HoldsLastSuccessful ==
    LET NameOf(n) == FileName(trace[n].url)
    IN  /\ Cardinality(DOMAIN files) <= Cardinality({NameOf(n) : n \in Downloads})
        /\ \A n \in Downloads :
             (trace[n].ok /\ \A k \in Downloads :
                                (k > n /\ trace[k].ok) => NameOf(k) # NameOf(n)) =>
                 /\ NameOf(n) \in DOMAIN files
                 /\ files[NameOf(n)] = trace[n].url

(***************************************************************************)
(* C15, amended.  After any downloads into the save directory, no file     *)
(* name is made up to avoid a file that is there: every file is named by a *)
(* derived file name, there are no more files than distinct derived file   *)
(* names, and the file of a name holds the bytes of the last download      *)
(* attempted for that name when that download succeeded, whatever earlier  *)
(* download had written it.  (A later attempt that fails may leave the     *)
(* file without the bytes of any download.)                                *)
(***************************************************************************)
C15_LaterDownloadOverwrites ==
    LET NameOf(n) == FileName(trace[n].url)
    IN  /\ DOMAIN files \subseteq {NameOf(n) : n \in Downloads}
        /\ Cardinality(DOMAIN files) <= Cardinality({NameOf(n) : n \in Downloads})
        /\ \A n \in Downloads :
             (trace[n].ok /\ \A k \in Downloads : k > n => NameOf(k) # NameOf(n)) =>
                 /\ NameOf(n) \in DOMAIN files
                 /\ files[NameOf(n)] = trace[n].url

\* a finished run in which two URLs of one file name were downloaded, and the
\* one file holds the bytes of the second
C15_Witness ==
    /\ pc = "done"
    /\ \E m, n \in Downloads :
         /\ m < n /\ trace[m].ok /\ trace[n].ok
         /\ trace[m].url # trace[n].url
         /\ FileName(trace[m].url) = FileName(trace[n].url)
         /\ files[FileName(trace[n].url)] = trace[n].url
    /\ Cardinality(DOMAIN files) = 1

C17_VisitedIsFetchStarted ==
    /\ [](recursive =>
            visited = {trace[n].url : n \in Fetches}
                        \cup {stack[k].url : k \in {i \in DOMAIN stack : stack[i].at = "fetch"}})
    /\ [][visited \subseteq visited']_vars

\* a crawl ended by the failed fetch of a page below the seed: its URL is in
\* the visited set
C17_Witness ==
    /\ recursive /\ pc = "done"
    /\ \E n \in FailedFetches : trace[n].depth > 0 /\ trace[n].url \in visited
    /\ Cardinality(visited) >= 2

(***************************************************************************)
(* C18.  Recursive mode with --level 0 and flat mode do the same on the    *)
(* same seed page: one fetch, of the seed, no link followed, and the       *)
(* downloads of the valid images of the page, in its order.  When no       *)
(* download fails both make all of them and report success.  They differ   *)
(* after a failed download alone: recursive mode goes on to the next image *)
(* and reports success, flat mode stops and reports failure.               *)
(***************************************************************************)
C18_LevelZeroAsFlat ==
    (recursive => max_depth = 0) =>
        /\ \A n \in Fetches : n = 1 /\ trace[n].url = seed
        /\ pc = "done" => Fetches = {1}
        /\ (trace # <<>> /\ trace[1].ok) =>
             LET attempts == DownloadedFor(seed)
                 expected == ValidOn(seed)
                 failed == {n \in Downloads : ~trace[n].ok}
             IN  /\ \A n \in Downloads : trace[n].page = seed
                 /\ Len(attempts) <= Len(expected)
                 /\ attempts = Prefix(expected, Len(attempts))
                 /\ (pc = "done" /\ failed = {}) => (attempts = expected /\ status = "ok")
                 /\ (pc = "done" /\ failed # {} /\ recursive) =>
                        (attempts = expected /\ status = "ok")
                 /\ (pc = "done" /\ failed # {} /\ ~recursive) =>
                        (failed = {Len(trace)} /\ status = "err")

\* a finished run of recursive mode with --level 0 on a seed page that links
\* to another page of its site and holds an image, which was downloaded
C18_Witness ==
    /\ recursive /\ max_depth = 0 /\ pc = "done" /\ status = "ok"
    /\ \E v \in Followed(seed) : v # seed
    /\ Downloads # {} /\ \A n \in Downloads : trace[n].ok

====
